---- MODULE Spec2Model ----
(***************************************************************************)
(* Model of cloudflare_remove_dns (src/main.go): a command-line tool that  *)
(* reads hostnames from a text file and, for each hostname, looks up the   *)
(* zone, lists the DNS records named like the hostname and deletes them    *)
(* (or, in dry-run mode, only logs them).                                  *)
(*                                                                         *)
(* Strings whose characters matter (file contents, lines, hostnames, zone  *)
(* names) are sequences of one-character strings.  The Cloudflare API and  *)
(* the file system are the environment: the outcome of every call to them  *)
(* is a nondeterministic choice.                                           *)
(***************************************************************************)
EXTENDS Integers, Sequences, FiniteSets, TLC

VARIABLES
    envToken,    \* value of CLOUDFLARE_API_TOKEN in the environment
    flagToken,   \* value given with --apitoken/-t, or NoFlag
    flagApply,   \* TRUE iff --apply/-a is on the command line
    file,        \* the input file: [exists, content, fault]
    srcLines,    \* the lines the file content was written from (ghost)
    apiToken,    \* global apiToken
    apply,       \* global apply
    pc,          \* position of the process
    hostnames,   \* result of readInputFile
    readErr,     \* error result of readInputFile
    client,      \* token the API client was built with, or NoClient
    hi,          \* index of the hostname being processed
    zoneID,      \* zone ID of the current hostname
    records,     \* records fetched for the current hostname
    ri,          \* index of the record being deleted
    calls,       \* history of the API calls issued (ghost)
    log          \* log entries written

vars == <<envToken, flagToken, flagApply, file, srcLines, apiToken, apply, pc,
          hostnames, readErr, client, hi, zoneID, records, ri, calls, log>>

----------------------------------------------------------------------------
(* Bounds *)

MaxLineLen == 3

MaxHosts == 2

MaxRecords == 2

----------------------------------------------------------------------------
(* Strings *)

NL == "\n"

CR == "\r"

SP == " "

HASH == "#"

DOT == "."

\* the white space strings.TrimSpace removes, as far as the alphabet has it
IsSpace(c) == c \in {SP, CR, NL, "\t"}

RECURSIVE TrimLeft(_)
TrimLeft(s) ==
    IF s # <<>> /\ IsSpace(Head(s)) THEN TrimLeft(Tail(s)) ELSE s

RECURSIVE TrimRight(_)
TrimRight(s) ==
    IF s # <<>> /\ IsSpace(s[Len(s)]) THEN TrimRight(SubSeq(s, 1, Len(s) - 1)) ELSE s

TrimSpace(s) == TrimRight(TrimLeft(s))

HasPrefix(s, p) == Len(s) >= Len(p) /\ SubSeq(s, 1, Len(p)) = p

\* index of the first occurrence of c in s, 0 when there is none
RECURSIVE IndexFrom(_, _, _)
IndexFrom(s, c, i) ==
    IF i > Len(s) THEN 0
    ELSE IF s[i] = c THEN i ELSE IndexFrom(s, c, i + 1)

Index(s, c) == IndexFrom(s, c, 1)

\* strings.Split(s, sep) for a one-character separator
RECURSIVE Split(_, _)
Split(s, sep) ==
    LET i == Index(s, sep)
    IN  IF i = 0 THEN <<s>>
        ELSE <<SubSeq(s, 1, i - 1)>> \o Split(SubSeq(s, i + 1, Len(s)), sep)

\* strings.Join(parts, sep)
RECURSIVE Join(_, _)
Join(parts, sep) ==
    IF parts = <<>> THEN <<>>
    ELSE IF Len(parts) = 1 THEN parts[1]
    ELSE parts[1] \o <<sep>> \o Join(Tail(parts), sep)

----------------------------------------------------------------------------
(* readInputFile *)

\* bufio.ScanLines drops one trailing carriage return of a line
DropCR(line) ==
    IF line # <<>> /\ line[Len(line)] = CR THEN SubSeq(line, 1, Len(line) - 1) ELSE line

\* the tokens scanner.Scan() yields: the lines of data without their end-of-line
\* marker; a last line without a newline is a token when it is not empty
RECURSIVE ScanLines(_)
ScanLines(data) ==
    IF data = <<>> THEN <<>>
    ELSE LET i == Index(data, NL)
         IN  IF i = 0 THEN <<DropCR(data)>>
             ELSE <<DropCR(SubSeq(data, 1, i - 1))>>
                      \o ScanLines(SubSeq(data, i + 1, Len(data)))

SkipLineNoComment(line) == line = <<>>

\* the skip test of the read loop, on the trimmed line
SkipLine(line) == line = <<>> \/ HasPrefix(line, <<HASH>>)

\* the read loop over the scanner's tokens
RECURSIVE ReadLoop(_, _)
ReadLoop(tokens, acc) ==
    IF tokens = <<>> THEN acc
    ELSE LET line == TrimSpace(Head(tokens))
         IN  IF SkipLine(line) THEN ReadLoop(Tail(tokens), acc)
             ELSE ReadLoop(Tail(tokens), Append(acc, line))

readInputFile(f) ==
    IF ~f.exists THEN [hostnames |-> <<>>, err |-> "open"]
    ELSE IF f.fault THEN [hostnames |-> <<>>, err |-> "scan"]
    ELSE [hostnames |-> ReadLoop(ScanLines(f.content), <<>>), err |-> "nil"]

----------------------------------------------------------------------------
(* getZoneNameFromRecord *)

LastTwo(parts) == SubSeq(parts, Len(parts) - 1, Len(parts))

\* the zone name of a hostname: its last two dot-separated labels
getZoneNameFromRecord(hostname) ==
    LET parts == Split(hostname, DOT)
    IN  IF Len(parts) < 2 THEN [zoneName |-> <<>>, err |-> "invalid hostname"]
        ELSE [zoneName |-> Join(LastTwo(parts), DOT), err |-> "nil"]

----------------------------------------------------------------------------
(* The environment: command line, process environment, input file *)

NoFlag == "<no flag>"

NoClient == "<no client>"

EnvTokens == {"", "envtok"}

FlagTokens == {NoFlag, "", "flagtok"}

HostNames == {<<"a", DOT, "b", DOT, "c">>, <<"h">>}

\* a comment line
CommentLine == <<HASH, SP, "c">>

\* the lines of an input file that names the hostnames hs: every hostname is
\* padded with white space and followed by a blank line and a comment
RECURSIVE FileLines(_)
FileLines(hs) ==
    IF hs = <<>> THEN <<CommentLine>>
    ELSE << <<SP>> \o Head(hs) \o <<CR>>, <<>> >> \o FileLines(Tail(hs))

SeqsUpTo(S, n) == UNION {[1..k -> S] : k \in 0..n}

\* the file of the given lines; fault: reading it fails (an I/O error, or a
\* line longer than the scanner's buffer)
FileOf(lines, fault) == [exists |-> TRUE, content |-> Join(lines, NL), fault |-> fault]

\* a file that cannot be opened
MissingFile == [exists |-> FALSE, content |-> <<>>, fault |-> FALSE]

\* the values of record.Proxied, a *bool: nil, or set (a pointer to either
\* boolean; the program only logs the boolean)
ProxiedValues == {"set", "nil"}

\* the record lists ListDNSRecords may return for hostname number h in zone z
RecordLists(h, z) ==
    {[j \in 1..Len(px) |-> [ID |-> j, ZoneID |-> z, Name |-> h, Proxied |-> px[j]]] :
        px \in SeqsUpTo(ProxiedValues, MaxRecords)}

Call(op, h, n, ok) == [op |-> op, host |-> h, n |-> n, ok |-> ok]

Entry(level, msg, h) == [level |-> level, msg |-> msg, host |-> h]

----------------------------------------------------------------------------
(* Initial states *)

Init ==
    /\ envToken \in EnvTokens
    /\ flagToken \in FlagTokens
    /\ flagApply \in BOOLEAN
    /\ \E hs \in SeqsUpTo(HostNames, MaxHosts) :
          /\ srcLines = FileLines(hs)
          /\ file \in {MissingFile, FileOf(srcLines, FALSE), FileOf(srcLines, TRUE)}
    /\ apiToken = ""      \* the flag's default value, set by init()
    /\ apply = FALSE      \* the flag's default value, set by init()
    /\ pc = "main"
    /\ hostnames = <<>>
    /\ readErr = "nil"
    /\ client = NoClient
    /\ hi = 0
    /\ zoneID = ""
    /\ records = <<>>
    /\ ri = 0
    /\ calls = <<>>
    /\ log = <<>>

----------------------------------------------------------------------------
(* main *)

TokenNeverMissing(token) == FALSE

\* the test of the token main reads from the environment
TokenMissing(token) == token = ""

\* main up to rootCmd.Execute(): the token is read from the environment and
\* an empty token is fatal.  The test of an empty inputFile that follows never
\* succeeds: init() has set inputFile to the flag's default, hostnames.txt, and
\* the command line is parsed later, in Execute.
MainGetenv ==
    /\ pc = "main"
    /\ apiToken' = envToken
    /\ IF TokenMissing(envToken)
       THEN /\ log' = Append(log, Entry("fatal", "CLOUDFLARE_API_TOKEN environment variable is not set", 0))
            /\ pc' = "fatal"
       ELSE /\ log' = log
            /\ pc' = "execute"
    /\ UNCHANGED <<envToken, flagToken, flagApply, file, srcLines, apply,
                   hostnames, readErr, client, hi, zoneID, records, ri, calls>>

TokenAfterFlagsEnvWins(flag, cur) == cur

\* the value of apiToken after the flags are parsed: a flag that is given is
\* stored in its variable, a flag that is not given leaves the variable alone
TokenAfterFlags(flag, cur) == IF flag = NoFlag THEN cur ELSE flag

\* rootCmd.Execute(): the command line (of well-formed flags) is parsed into
\* the flag variables and run is called; --filename selects the input file
Execute ==
    /\ pc = "execute"
    /\ apply' = flagApply
    /\ apiToken' = TokenAfterFlags(flagToken, apiToken)
    /\ pc' = "run"
    /\ UNCHANGED <<envToken, flagToken, flagApply, file, srcLines, hostnames,
                   readErr, client, hi, zoneID, records, ri, calls, log>>

----------------------------------------------------------------------------
(* run *)

\* run, first statement: the input file is read; a failure is fatal
RunRead ==
    /\ pc = "run"
    /\ LET r == readInputFile(file)
       IN  /\ hostnames' = r.hostnames
           /\ readErr' = r.err
           /\ IF r.err # "nil"
              THEN /\ log' = Append(log, Entry("fatal", "Failed to read file", 0))
                   /\ pc' = "fatal"
              ELSE /\ log' = log
                   /\ pc' = "newapi"
    /\ UNCHANGED <<envToken, flagToken, flagApply, file, srcLines, apiToken,
                   apply, client, hi, zoneID, records, ri, calls>>

\* the outcomes of cloudflare.NewWithAPIToken: it may fail, and it fails on an
\* empty token
NewWithAPIToken(token) == IF token = "" THEN {FALSE} ELSE BOOLEAN

\* run, the API client is built from apiToken (a failure is fatal), and an empty
\* list of hostnames ends the run
RunNewAPI ==
    /\ pc = "newapi"
    /\ \E ok \in NewWithAPIToken(apiToken) :
          IF ~ok
          THEN /\ log' = Append(log, Entry("fatal", "Failed to create API instance", 0))
               /\ pc' = "fatal"
               /\ UNCHANGED <<client, hi>>
          ELSE /\ client' = apiToken
               /\ IF Len(hostnames) = 0
                  THEN /\ log' = Append(log, Entry("info", "No readable hostnames found in the input file", 0))
                       /\ pc' = "done"
                       /\ hi' = hi
                  ELSE /\ log' = log
                       /\ pc' = "zone"
                       /\ hi' = 1
    /\ UNCHANGED <<envToken, flagToken, flagApply, file, srcLines, apiToken,
                   apply, hostnames, readErr, zoneID, records, ri, calls>>

NextHostStop ==
    /\ hi' = hi
    /\ pc' = "done"

\* the end of one iteration of the loop over the hostnames
NextHost ==
    IF hi < Len(hostnames)
    THEN /\ hi' = hi + 1
         /\ pc' = "zone"
    ELSE /\ hi' = hi
         /\ pc' = "done"

\* run, loop body up to the zone lookup: the zone name is taken from the
\* hostname and its zone ID is looked up; both failures are logged and the
\* iteration goes on
RunZone ==
    /\ pc = "zone"
    /\ LET z    == getZoneNameFromRecord(hostnames[hi])
           log1 == IF z.err # "nil"
                   THEN Append(log, Entry("error", "Failed to parse zone name from record", hi))
                   ELSE log
       IN  \E ok \in BOOLEAN :
              /\ calls' = Append(calls, Call("ZoneIDByName", hi, 0, ok))
              /\ zoneID' = IF ok THEN "zone-id" ELSE ""
              /\ log' = IF ok THEN log1
                        ELSE Append(log1, Entry("error", "Failed to fetch zone ID", hi))
    /\ pc' = "fetch"
    /\ UNCHANGED <<envToken, flagToken, flagApply, file, srcLines, apiToken,
                   apply, hostnames, readErr, client, hi, records, ri>>

\* the outcomes of ListDNSRecords for hostname number h in zone z
ListDNSRecords(h, z) ==
    {[records |-> <<>>, err |-> "list error"]}
    \cup {[records |-> recs, err |-> "nil"] : recs \in RecordLists(h, z)}

ZeroRecordsLevelError == "error"

\* the level of the entry fetchDNSRecords logs for an empty result
ZeroRecordsLevel == "info"

\* what fetchDNSRecords logs for the outcome res of the list call
FetchLog(res, h) ==
    <<Entry("info", "Fetching Record: ", h)>>
    \o (IF res.err # "nil" THEN <<Entry("error", "Failed to fetch DNS record", h)>>
        ELSE IF Len(res.records) = 0
        THEN <<Entry(ZeroRecordsLevel, "No records found for", h)>>
        ELSE <<>>)

\* run, fetchDNSRecords for the current hostname; an error skips the hostname,
\* otherwise the loop over the records starts
RunFetch ==
    /\ pc = "fetch"
    /\ \E res \in ListDNSRecords(hi, zoneID) :
          /\ calls' = Append(calls, Call("ListDNSRecords", hi, Len(res.records), res.err = "nil"))
          /\ log' = log \o FetchLog(res, hi)
          /\ records' = res.records
          /\ IF res.err # "nil" \/ Len(res.records) = 0
             THEN /\ NextHost
                  /\ ri' = ri
             ELSE /\ ri' = 1
                  /\ pc' = "delete"
                  /\ hi' = hi
    /\ UNCHANGED <<envToken, flagToken, flagApply, file, srcLines, apiToken,
                   apply, hostnames, readErr, client, zoneID>>

\* the end of one iteration of the loop over the records
NextRecord ==
    IF ri < Len(records)
    THEN /\ ri' = ri + 1
         /\ pc' = "delete"
         /\ hi' = hi
    ELSE /\ ri' = ri
         /\ NextHost

DryRunNever(a) == FALSE

\* deleteDNSRecord, its first test: without apply the record is only logged
DryRun(a) == ~a

\* run, one iteration of the loop over the records: deleteDNSRecord.  The log
\* entries of a dry run and of a successful deletion read *record.Proxied,
\* which panics when Proxied is nil.
RunDelete ==
    /\ pc = "delete"
    /\ LET rec == records[ri]
       IN  IF DryRun(apply)
           THEN /\ calls' = calls
                /\ IF rec.Proxied = "nil"
                   THEN /\ pc' = "panic"
                        /\ UNCHANGED <<log, hi, ri>>
                   ELSE /\ log' = Append(log, Entry("info", "[DRY RUN] Deleting Record: ", hi))
                        /\ NextRecord
           ELSE \E ok \in BOOLEAN :
                   /\ calls' = Append(calls, Call("DeleteDNSRecord", hi, rec.ID, ok))
                   /\ IF ~ok
                      THEN /\ log' = log \o << Entry("error", "Failed to delete DNS record", hi),
                                              Entry("error", "Error deleting record", hi) >>
                           /\ NextRecord
                      ELSE IF rec.Proxied = "nil"
                      THEN /\ pc' = "panic"
                           /\ UNCHANGED <<log, hi, ri>>
                      ELSE /\ log' = Append(log, Entry("warn", "Deleted Record: ", hi))
                           /\ NextRecord
    /\ UNCHANGED <<envToken, flagToken, flagApply, file, srcLines, apiToken,
                   apply, hostnames, readErr, client, zoneID, records>>

----------------------------------------------------------------------------
(* Specifications *)

Next ==
    \/ MainGetenv
    \/ Execute
    \/ RunRead
    \/ RunNewAPI
    \/ RunZone
    \/ RunFetch
    \/ RunDelete

Spec == Init /\ [][Next]_vars

\* the characters of the short input files
ReadAlphabet == {"a", HASH, SP, CR}

\* the input file of the scenario: two hostnames, a blank line and a comment
ExampleLines == << <<"a", DOT, "e">>, <<>>, <<HASH, SP, "c">>, <<"b", DOT, "e">> >>

\* the files of at most two lines of at most MaxLineLen characters
ShortFiles ==
    LET L == SeqsUpTo(ReadAlphabet, MaxLineLen)
    IN  {<<>>} \cup {<<l>> : l \in L} \cup {<<l, m>> : l \in L, m \in L}

\* run is entered (the token is set, the flags are parsed) with any short file
InitRead ==
    /\ envToken = "envtok"
    /\ flagToken = NoFlag
    /\ flagApply = FALSE
    /\ srcLines \in ShortFiles \cup {ExampleLines}
    /\ file \in {FileOf(srcLines, FALSE), FileOf(srcLines, TRUE)}
    /\ apiToken = "envtok"
    /\ apply = FALSE
    /\ pc = "run"
    /\ hostnames = <<>>
    /\ readErr = "nil"
    /\ client = NoClient
    /\ hi = 0
    /\ zoneID = ""
    /\ records = <<>>
    /\ ri = 0
    /\ calls = <<>>
    /\ log = <<>>

NextRead == RunRead

SpecRead == InitRead /\ [][NextRead]_vars

----------------------------------------------------------------------------
(* Vocabulary of the properties *)

\* the process has ended: normally, by logger.Fatal, or by a panic
Terminal == pc \in {"done", "fatal", "panic"}

\* the positions of the calls of operation op for hostname number h
CallsOf(op, h) == {i \in DOMAIN calls : calls[i].op = op /\ calls[i].host = h}

\* the positions of the delete calls for record number j of hostname number h
DeletesOf(h, j) == {i \in CallsOf("DeleteDNSRecord", h) : calls[i].n = j}

\* the positions of the calls of operation op that failed
FailedCalls(op) == {i \in DOMAIN calls : calls[i].op = op /\ ~calls[i].ok}

\* the entries a step appends to the log
NewEntries == SubSeq(log', Len(log) + 1, Len(log'))

\* the step is the list call of the current hostname
FetchStep == pc = "fetch" /\ Len(calls') = Len(calls) + 1

\* the position after the current hostname is given up or finished
AtNextHost ==
    IF hi < Len(hostnames) THEN pc' = "zone" /\ hi' = hi + 1 ELSE pc' = "done"

----------------------------------------------------------------------------
(* Dry run and apply mode *)

C2_OneDeletePerRecord ==
    (flagApply /\ Terminal) =>
        \A i \in DOMAIN calls :
            (calls[i].op = "ListDNSRecords" /\ calls[i].ok) =>
                \A j \in 1..calls[i].n : Cardinality(DeletesOf(calls[i].host, j)) = 1

\* C3: with --apply, when the run has ended, every failed delete call is
\* followed by a delete call for every later record of its hostname, and by the
\* zone lookup and the list call of every later hostname.
C3_DeleteFailureDoesNotAbort ==
    (flagApply /\ Terminal) =>
        \A i \in FailedCalls("DeleteDNSRecord") :
            /\ \A k \in DOMAIN calls :
                  (calls[k].op = "ListDNSRecords" /\ calls[k].host = calls[i].host) =>
                      \A j \in (calls[i].n + 1)..calls[k].n :
                          DeletesOf(calls[i].host, j) # {}
            /\ \A h \in (calls[i].host + 1)..Len(hostnames) :
                  /\ CallsOf("ZoneIDByName", h) # {}
                  /\ CallsOf("ListDNSRecords", h) # {}

----------------------------------------------------------------------------
(* Per-hostname failures *)

\* C4: a hostname whose zone lookup failed gets no list call and no delete
\* call.
C4_ZoneFailureSkipsHost ==
    \A i \in FailedCalls("ZoneIDByName") :
        /\ CallsOf("ListDNSRecords", calls[i].host) = {}
        /\ CallsOf("DeleteDNSRecord", calls[i].host) = {}

\* a hostname whose list call failed has no delete call
NoDeleteAfterListError ==
    \A i \in FailedCalls("ListDNSRecords") :
        CallsOf("DeleteDNSRecord", calls[i].host) = {}

\* C5: when the list call of a hostname fails, the step logs the error and
\* moves on to the next hostname (or ends the run after the last one), and no
\* delete call is ever issued for that hostname.
C5_ListErrorSkipsHost ==
    [][/\ (FetchStep /\ ~calls'[Len(calls')].ok) =>
              /\ \E k \in DOMAIN NewEntries :
                    /\ NewEntries[k].level = "error"
                    /\ NewEntries[k].host = hi
              /\ AtNextHost
       /\ NoDeleteAfterListError']_vars

\* in apply mode the list call of the first hostname failed and the second
\* hostname is being processed
C5_Witness ==
    /\ flagApply
    /\ \E i \in FailedCalls("ListDNSRecords") : calls[i].host = 1
    /\ hi = 2
    /\ pc = "fetch"

\* a hostname whose list call returned no record has no delete call
NoDeleteAfterEmptyList ==
    \A i \in DOMAIN calls :
        (calls[i].op = "ListDNSRecords" /\ calls[i].ok /\ calls[i].n = 0) =>
            CallsOf("DeleteDNSRecord", calls[i].host) = {}

\* C6: when the list call of a hostname returns no record, the step logs no
\* error-level entry and moves on to the next hostname (or ends the run after
\* the last one), and no delete call is ever issued for that hostname.
C6_EmptyListIsNoError ==
    [][/\ (FetchStep /\ calls'[Len(calls')].ok /\ calls'[Len(calls')].n = 0) =>
              /\ \A k \in DOMAIN NewEntries : NewEntries[k].level # "error"
              /\ AtNextHost
       /\ NoDeleteAfterEmptyList']_vars

\* in apply mode the list call of the first hostname returned no record and the
\* second hostname is being processed
C6_Witness ==
    /\ flagApply
    /\ \E i \in CallsOf("ListDNSRecords", 1) : calls[i].ok /\ calls[i].n = 0
    /\ hi = 2
    /\ pc = "fetch"

----------------------------------------------------------------------------
(* The input file *)

\* the trimmed form of a line, stated by its shape: the line is white space,
\* then t, then white space, and t neither starts nor ends with white space
IsTrimOf(t, line) ==
    /\ t = <<>> \/ (~IsSpace(t[1]) /\ ~IsSpace(t[Len(t)]))
    /\ \E i \in 0..Len(line) :
          /\ i + Len(t) <= Len(line)
          /\ SubSeq(line, i + 1, i + Len(t)) = t
          /\ \A k \in 1..Len(line) : (k <= i \/ k > i + Len(t)) => IsSpace(line[k])

Trimmed(line) ==
    CHOOSE t \in {SubSeq(line, i, j) : i \in 1..(Len(line) + 1), j \in 0..Len(line)} :
        IsTrimOf(t, line)

\* a trimmed line that names a hostname: not empty and no comment
IsHostnameLine(t) == t # <<>> /\ t[1] # HASH

\* the hostnames the lines of a file name, in file order
Expected(lines) ==
    SelectSeq([k \in DOMAIN lines |-> Trimmed(lines[k])], IsHostnameLine)

\* the input file has been read without an error: run is past readInputFile
FileWasRead == pc \in {"newapi", "zone", "fetch", "delete", "done", "panic"}

\* C7: for every file that is read without an error, readInputFile returns
\* exactly the trimmed lines of the file that are not empty and do not start
\* with #, in file order; no hostname it returns is empty, starts with # or
\* begins or ends with white space.
C7_ReadInputFile ==
    FileWasRead =>
        /\ hostnames = Expected(srcLines)
        /\ \A k \in DOMAIN hostnames :
              /\ hostnames[k] # <<>>
              /\ hostnames[k][1] # HASH
              /\ ~IsSpace(hostnames[k][1])
              /\ ~IsSpace(hostnames[k][Len(hostnames[k])])

\* the file of the scenario has been read and named its two hostnames
C7_Witness ==
    /\ FileWasRead
    /\ srcLines = ExampleLines
    /\ hostnames = << <<"a", DOT, "e">>, <<"b", DOT, "e">> >>

----------------------------------------------------------------------------
(* Configuration *)

\* the configuration of the run is in error: no token in the environment, or
\* an input file that cannot be opened or read
BadConfig == envToken = "" \/ ~file.exists \/ file.fault

\* C8: on a fatal configuration error (no token in the environment, an input
\* file that cannot be read, a failure to build the API client) the process
\* ends at once, by logger.Fatal, and no zone lookup, list call or delete call
\* is ever issued.
C8_FatalConfigNoCalls ==
    /\ [](BadConfig \/ pc = "fatal" => calls = <<>>)
    /\ [](envToken = "" /\ pc # "main" => pc = "fatal")
    /\ [](BadConfig /\ pc \notin {"main", "execute", "run"} => pc = "fatal")
    /\ [][pc # "fatal"]_vars

\* the process has ended on an input file that cannot be opened
C8_Witness ==
    /\ pc = "fatal"
    /\ envToken # ""
    /\ ~file.exists
    /\ readErr = "open"

\* C9 as stated: the API client is always built with the token of the
\* environment, never with the value of --apitoken.
C9_ClientTokenIsEnv ==
    client # NoClient => client = envToken

\* C9 as amended: the API client is built with the value of --apitoken when
\* that flag is given and with the token of the environment when it is not;
\* the environment's token is not empty in either case.
C9_ClientTokenFlagOverEnv ==
    client # NoClient =>
        /\ envToken # ""
        /\ flagToken # NoFlag => client = flagToken
        /\ flagToken = NoFlag => client = envToken

\* the API client is built with the flag's token, which differs from the token
\* of the environment
C9_Witness ==
    /\ client = "flagtok"
    /\ envToken = "envtok"

----------------------------------------------------------------------------
(* Termination *)

\* C10: once the API client is built the run never crashes, and when it has
\* ended every hostname of the input file has been attempted.
C10_RunEndsNormally ==
    client # NoClient =>
        /\ pc # "panic"
        /\ pc = "done" => \A h \in DOMAIN hostnames : CallsOf("ZoneIDByName", h) # {}

====
